---- MODULE Spec2Model ----
(***************************************************************************)
(* Tool resolution and invocation subsystem of the HelpingAI JS SDK:       *)
(* the global ToolRegistry, the MCPClient / MCPManager pair and the        *)
(* HelpingAI client's call() and processTools().                           *)
(*                                                                         *)
(* JavaScript is single threaded: a handler runs without interruption up   *)
(* to its next `await`.  Every action below is therefore the code between  *)
(* two suspension points of one async call; calls in flight are the        *)
(* entries of `tasks`.                                                     *)
(***************************************************************************)
EXTENDS Integers, Sequences, FiniteSets, TLC

\* ------------------------------------------------------------------ bounds
MaxManagers == 2      \* MCPManager objects constructed by processTools
MaxAppManagers == 1   \* MCPManager objects constructed by the application
MaxTasks == 2         \* async calls in flight at once
MaxParams == 2        \* parameters of a callable given to generateToolSchema
MaxParts == 3         \* content parts of a result a remote MCP tool returns
MaxChunks == 2        \* chunks a streaming completion collects

\* ------------------------------------------------------- JS Map (ordered)
\* A JS Map keeps insertion order; set() on a present key replaces the value
\* in place, delete() removes the entry.  Entries are [k |-> key, v |-> value].
MapIndex(m, key) ==
    IF \E i \in 1..Len(m) : m[i].k = key
    THEN CHOOSE i \in 1..Len(m) : m[i].k = key /\ \A j \in 1..(i-1) : m[j].k # key
    ELSE 0

MapHas(m, key) == MapIndex(m, key) # 0

MapGet(m, key) == m[MapIndex(m, key)].v

MapSet(m, key, val) ==
    IF MapHas(m, key)
    THEN [m EXCEPT ![MapIndex(m, key)] = [k |-> key, v |-> val]]
    ELSE Append(m, [k |-> key, v |-> val])

MapDelete(m, key) ==
    LET Keep(e) == e.k # key IN SelectSeq(m, Keep)

MapKeys(m) == [i \in 1..Len(m) |-> m[i].k]

MapValues(m) == [i \in 1..Len(m) |-> m[i].v]

\* ---------------------------------------------------------------- helpers
Range(s) == {s[i] : i \in 1..Len(s)}

RECURSIVE Flatten(_)
Flatten(ss) == IF ss = <<>> THEN <<>> ELSE Head(ss) \o Flatten(Tail(ss))

\* ------------------------------------------------------------ input values
\* Callables an application may register.  `name` is Function.name, `params`
\* the parameter list as declared in the source text (default: the kind of
\* `= value` the parameter carries, "none" when it has no default), `id`
\* tells two callables of the same name apart.  The last one is an anonymous
\* function: its Function.name is the empty string.
Fns ==
    { [id |-> 1, name |-> "s1_tool",          params |-> <<[name |-> "a", default |-> "none"]>>],
      [id |-> 2, name |-> "code_interpreter", params |-> <<>>],
      [id |-> 3, name |-> "code_interpreter", params |-> <<[name |-> "a", default |-> "none"],
                                                           [name |-> "b", default |-> "literal"]>>],
      [id |-> 4, name |-> "",                 params |-> <<>>] }

\* Callables given to generateToolSchema: every parameter list of at most
\* MaxParams parameters with distinct names.
ParamNames == {"a", "b", "c"}

DefaultKinds == {"none", "literal", "call", "list", "object"}

ParamLists ==
    UNION { { ps \in [1..n -> [name : ParamNames, default : DefaultKinds]] :
                \A i, j \in 1..n : ps[i].name = ps[j].name => i = j }
            : n \in 0..MaxParams }

Callables == { [id |-> 0, name |-> "f", params |-> ps] : ps \in ParamLists }

\* Names a caller may pass to call(), remove() and the like.
ToolNames == {"s1_tool", "s1_http_tool", "code_interpreter", "web_search", "nope"}

\* Arguments objects, as the set of keys they carry.
ArgSets == {{}, {"a"}}

\* MCP server entries.  kind "stdio": {command, args}; "http": {url};
\* "both": command and url; "none": neither.
Srv(n, kd) == [serverName |-> n, kind |-> kd]

\* MCPServersConfig.mcpServers in Object.keys order.
Configs ==
    { <<Srv("s1", "stdio")>>,
      <<Srv("s1", "stdio"), Srv("s2", "none")>>,
      <<Srv("s2", "none")>>,
      <<Srv("s1", "http"), Srv("s2", "both")>>,
      <<Srv("s1_http", "stdio"), Srv("s1", "http")>> }

\* Caller-supplied tool lists (ChatCompletionRequest.tools): a bare string,
\* an {mcpServers: ...} block, or an OpenAI-format declaration.
Str(n) == [type |-> "string", name |-> n]
Mcp(c) == [type |-> "mcp", cfg |-> c]
Decl(n) == [type |-> "function", name |-> n]

ToolLists ==
    { <<Str("code_interpreter"), Decl("calc")>>,
      <<Mcp(<<Srv("s1", "stdio")>>)>>,
      <<Mcp(<<Srv("s1", "stdio")>>), Mcp(<<Srv("s1", "http"), Srv("s2", "both")>>)>>,
      <<Decl("s1_http_tool"), Mcp(<<Srv("s1", "http"), Srv("s2", "none")>>)>> }

\* ----------------------------------------------------------------- state
VARIABLES
    registry,     \* ToolRegistry.tools of the global registry: Map name -> {tool, fn}
    managers,     \* every MCPManager constructed so far: [initialized, connections]
    mcpManager,   \* HelpingAI.mcpManager: index into managers, 0 when undefined
    tasks,        \* async calls in flight, suspended at an await
    last          \* what the most recent step did and returned (observation)

vars == <<registry, managers, mcpManager, tasks, last>>

\* ------------------------------------------------------ schema inference
\* Source text is a sequence of tokens; these are the tokens made of word
\* characters (\w), every other token is punctuation.
Words == ParamNames \cup {"function", "f", "g", "x", "y", "1", "2",
                          "s1_tool", "code_interpreter"}

\* The source text of a default value.
DefaultText(kind) ==
    CASE kind = "none" -> <<>>
      [] kind = "literal" -> <<"=", "1">>
      [] kind = "call" -> <<"=", "g", "(", ")">>
      [] kind = "list" -> <<"=", "[", "1", ",", "2", "]">>
      [] kind = "object" -> <<"=", "{", "x", ":", "1", ",", "y", ":", "2", "}">>

RECURSIVE JoinParams(_)
JoinParams(ps) ==
    IF ps = <<>> THEN <<>>
    ELSE IF Len(ps) = 1 THEN <<ps[1].name>> \o DefaultText(ps[1].default)
    ELSE <<ps[1].name>> \o DefaultText(ps[1].default) \o <<",">> \o JoinParams(Tail(ps))

\* fn.toString(): the source text of the callable.
FnToString(fn) ==
    <<"function">> \o (IF fn.name = "" THEN <<>> ELSE <<fn.name>>) \o
    <<"(">> \o JoinParams(fn.params) \o <<")", "{", "}">>

\* Position of the first token tok of s at or after position from, 0 if none.
IndexOf(s, tok, from) ==
    IF \E i \in from..Len(s) : s[i] = tok
    THEN CHOOSE i \in from..Len(s) : s[i] = tok /\ \A j \in from..(i-1) : s[j] # tok
    ELSE 0

\* paramString.split(',')
RECURSIVE Split(_)
Split(s) ==
    LET i == IndexOf(s, ",", 1)
    IN IF i = 0 THEN <<s>>
       ELSE <<SubSeq(s, 1, i - 1)>> \o Split(SubSeq(s, i + 1, Len(s)))

\* What /(\w+)(?:\s*:\s*([^=]+?))?(?:\s*=\s*(.+))?$/ makes of the text that
\* follows the name: nothing follows ("plain"), `: type` up to the end
\* ("plain"), `= value` or `: type = value` ("default"), or no match.
RestOfParameter(rest) ==
    IF rest = <<>> THEN "plain"
    ELSE IF rest[1] = "=" THEN (IF Len(rest) >= 2 THEN "default" ELSE "nomatch")
    ELSE IF rest[1] = ":"
    THEN LET e == IndexOf(rest, "=", 2)
         IN IF e = 0 THEN (IF Len(rest) >= 2 THEN "plain" ELSE "nomatch")
            ELSE IF e >= 3 /\ e < Len(rest) THEN "default"
            ELSE "nomatch"
    ELSE "nomatch"

\* parseParameter: the leftmost word from which the pattern matches up to
\* the end of the piece; << >> stands for null.
ParseParameter(param) ==
    LET Matches(i) ==
            /\ param[i] \in Words
            /\ RestOfParameter(SubSeq(param, i + 1, Len(param))) # "nomatch"
    IN IF \E i \in 1..Len(param) : Matches(i)
       THEN LET i == CHOOSE k \in 1..Len(param) :
                        Matches(k) /\ \A j \in 1..(k-1) : ~Matches(j)
            IN <<[name |-> param[i],
                  required |-> RestOfParameter(SubSeq(param, i + 1, Len(param))) = "plain"]>>
       ELSE <<>>

\* extractParameters: the text between the first "(" and the first ")" after
\* it (/\(([^)]*)\)/), split at commas, each piece parsed, nulls dropped.
ExtractParameters(functionString) ==
    LET open == IndexOf(functionString, "(", 1)
        close == IF open = 0 THEN 0 ELSE IndexOf(functionString, ")", open + 1)
    IN IF open = 0 \/ close = 0 THEN <<>>
       ELSE LET paramString == SubSeq(functionString, open + 1, close - 1)
            IN IF paramString = <<>> THEN <<>>
               ELSE LET params == Split(paramString)
                    IN Flatten([i \in 1..Len(params) |-> ParseParameter(params[i])])

\* generateToolSchema: one property per extracted parameter, required = the
\* extracted parameters without a default value.
GenerateToolSchema(name, fn) ==
    LET parameters == ExtractParameters(FnToString(fn))
        Required(q) == q.required
        req == SelectSeq(parameters, Required)
    IN [name |-> name,
        properties |-> {parameters[i].name : i \in 1..Len(parameters)},
        required |-> [i \in 1..Len(req) |-> req[i].name]]

\* generateToolSchema(fn.name, fn) called on a callable.
Infer(fn) ==
    /\ last' = [op |-> "schema", fn |-> fn,
                schema |-> GenerateToolSchema(fn.name, fn)]
    /\ UNCHANGED <<registry, managers, mcpManager, tasks>>

\* -------------------------------------------------------------- registry
\* Variant of register without the has() guard: Map.set replaces the entry.
RegistryRegisterOverwrite(reg, name, tool, fn) ==
    [error |-> "", tools |-> MapSet(reg, name, [tool |-> tool, fn |-> fn])]

\* ToolRegistry.register: throws when the name is present, else inserts.
RegistryRegister(reg, name, tool, fn) ==
    IF MapHas(reg, name)
    THEN [error |-> "ToolRegistrationError", tools |-> reg]
    ELSE [error |-> "", tools |-> MapSet(reg, name, [tool |-> tool, fn |-> fn])]

\* ToolRegistry.remove: Map.delete, returns whether an entry was removed.
RegistryRemove(reg, name) ==
    [removed |-> MapHas(reg, name), tools |-> MapDelete(reg, name)]

\* ToolRegistry.clear
RegistryClear(reg) == <<>>

\* Variant of tools(target) without the check of target.name.
ToolsUnchecked(fn) ==
    /\ LET r == RegistryRegister(registry, fn.name,
                                 GenerateToolSchema(fn.name, fn), fn)
       IN /\ registry' = r.tools
          /\ last' = [op |-> "register", name |-> fn.name, fn |-> fn.id,
                      error |-> r.error]
    /\ UNCHANGED <<managers, mcpManager, tasks>>

\* Variant of tools(target) that assigns target._toolSchema before it
\* registers.
ToolsDecorateFirst(fn) ==
    /\ LET r == IF fn.name = ""
                THEN [error |-> "ToolRegistrationError", tools |-> registry]
                ELSE RegistryRegister(registry, fn.name,
                                      GenerateToolSchema(fn.name, fn), fn)
       IN /\ registry' = r.tools
          /\ last' = [op |-> "register", name |-> fn.name, fn |-> fn.id,
                      error |-> r.error, toolSchemaSet |-> fn.name # ""]
    /\ UNCHANGED <<managers, mcpManager, tasks>>

\* tools(target): the decorator; registers target under target.name.
Tools(fn) ==
    /\ LET r == IF fn.name = ""
                THEN [error |-> "ToolRegistrationError", tools |-> registry]
                ELSE RegistryRegister(registry, fn.name,
                                      GenerateToolSchema(fn.name, fn), fn)
       IN /\ registry' = r.tools
          /\ last' = [op |-> "register", name |-> fn.name, fn |-> fn.id,
                      error |-> r.error, toolSchemaSet |-> r.error = ""]
    /\ UNCHANGED <<managers, mcpManager, tasks>>

Remove(name) ==
    /\ LET r == RegistryRemove(registry, name)
       IN /\ registry' = r.tools
          /\ last' = [op |-> "remove", name |-> name, removed |-> r.removed]
    /\ UNCHANGED <<managers, mcpManager, tasks>>

Clear ==
    /\ registry' = RegistryClear(registry)
    /\ last' = [op |-> "clear"]
    /\ UNCHANGED <<managers, mcpManager, tasks>>

\* ------------------------------------------------------------- MCPClient
\* initializeStdioConnection / initializeHttpConnection (mock discovery).
InitializeStdioConnection(connection) ==
    [connection EXCEPT !.initialized = TRUE,
                       !.tools = <<connection.serverName \o "_tool">>]

InitializeHttpConnection(connection) ==
    [connection EXCEPT !.initialized = TRUE,
                       !.tools = <<connection.serverName \o "_http_tool">>]

\* Variant of connect without the final else-throw: an entry with neither
\* command nor url yields a connection that is stored as it was built.
ConnectNoElse(entry) ==
    LET connection == [serverName |-> entry.serverName, config |-> entry.kind,
                       initialized |-> FALSE, tools |-> <<>>]
    IN IF entry.kind \in {"stdio", "both"}
       THEN [ok |-> TRUE, serverName |-> entry.serverName,
             connection |-> InitializeStdioConnection(connection)]
       ELSE IF entry.kind = "http"
       THEN [ok |-> TRUE, serverName |-> entry.serverName,
             connection |-> InitializeHttpConnection(connection)]
       ELSE [ok |-> TRUE, serverName |-> entry.serverName,
             connection |-> connection]

\* MCPClient.connect up to its await: the connection object it built, or the
\* MCPError it is about to reject with.  connections.set runs after the await.
Connect(entry) ==
    LET connection == [serverName |-> entry.serverName, config |-> entry.kind,
                       initialized |-> FALSE, tools |-> <<>>]
    IN IF entry.kind \in {"stdio", "both"}
       THEN [ok |-> TRUE, serverName |-> entry.serverName,
             connection |-> InitializeStdioConnection(connection)]
       ELSE IF entry.kind = "http"
       THEN [ok |-> TRUE, serverName |-> entry.serverName,
             connection |-> InitializeHttpConnection(connection)]
       ELSE [ok |-> FALSE, serverName |-> entry.serverName,
             connection |-> connection]

\* MCPClient.getAvailableTools: tools of every initialized connection.
GetAvailableTools(connections) ==
    LET Ready(c) == c.initialized
        ready == SelectSeq(MapValues(connections), Ready)
    IN Flatten([i \in 1..Len(ready) |-> ready[i].tools])

\* Variant of callTool that forwards to the connection that declared the tool
\* last.
CallToolLastOwner(connections, toolName) ==
    LET Declares(c) == toolName \in Range(c.tools)
        owners == SelectSeq(MapValues(connections), Declares)
    IN IF owners = <<>>
       THEN [error |-> "not found in any connected MCP server", server |-> ""]
       ELSE IF ~owners[Len(owners)].initialized
       THEN [error |-> "server not initialized", server |-> ""]
       ELSE [error |-> "", server |-> owners[Len(owners)].serverName]

\* MCPClient.callTool: first connection in table order that declares the tool.
CallTool(connections, toolName) ==
    LET Declares(c) == toolName \in Range(c.tools)
        owners == SelectSeq(MapValues(connections), Declares)
    IN IF owners = <<>>
       THEN [error |-> "not found in any connected MCP server", server |-> ""]
       ELSE IF ~Head(owners).initialized
       THEN [error |-> "server not initialized", server |-> ""]
       ELSE [error |-> "", server |-> Head(owners).serverName]

\* Variant of disconnect that forgets connections.delete.
DisconnectKeep(connections, serverName) == connections

\* MCPClient.disconnect
Disconnect(connections, serverName) ==
    IF ~MapHas(connections, serverName) THEN connections
    ELSE MapDelete(connections, serverName)

\* MCPClient.getConnectionStatus / getConnectedServers
GetConnectionStatus(connections) ==
    {<<connections[i].k, connections[i].v.initialized>> : i \in 1..Len(connections)}

GetConnectedServers(connections) ==
    LET Ready(e) == e.v.initialized
    IN MapKeys(SelectSeq(connections, Ready))

\* ------------------------------------------------------------ MCPManager
\* initialized and connections (MCPClient.connections) are the object's state;
\* cleaned is history: "yes" when the last completed lifecycle call was a
\* cleanup() that overlapped no other call and found connections to
\* disconnect, "empty" when it found none, "no" otherwise.
NewMCPManager ==
    [initialized |-> FALSE, connections |-> <<>>, cleaned |-> "no"]

\* `this.initialized = true` at the end of initialize(config).
SetInitialized(mgr) ==
    [mgr EXCEPT !.initialized = TRUE, !.cleaned = "no"]

\* `this.initialized = false` at the end of cleanup().
SetUninitialized(mgr, alone, wasEmpty) ==
    [mgr EXCEPT !.initialized = FALSE,
                !.cleaned = IF ~alone THEN "no"
                            ELSE IF wasEmpty THEN "empty" ELSE "yes"]

\* MCPManager.isMCPTool
IsMCPTool(mgr, toolName) ==
    IF ~mgr.initialized THEN FALSE
    ELSE toolName \in Range(GetAvailableTools(mgr.connections))

\* Variant of getToolsAsOpenAIFormat in which the connection table is shared:
\* the tools of every initialized manager built so far are listed as well.
GetToolsOfEveryManager(mgr) ==
    IF ~mgr.initialized THEN <<>>
    ELSE LET Ready(g) == g.initialized
             others == SelectSeq(managers, Ready)
             mcpTools == GetAvailableTools(mgr.connections) \o
                         Flatten([i \in 1..Len(others) |->
                                     GetAvailableTools(others[i].connections)])
         IN [i \in 1..Len(mcpTools) |-> [type |-> "function", name |-> mcpTools[i]]]

\* MCPManager.getToolsAsOpenAIFormat with convertMCPToolToOpenAI
GetToolsAsOpenAIFormat(mgr) ==
    IF ~mgr.initialized THEN <<>>
    ELSE LET mcpTools == GetAvailableTools(mgr.connections)
         IN [i \in 1..Len(mcpTools) |-> [type |-> "function", name |-> mcpTools[i]]]

\* Variant of executeTool without the initialized check.
ExecuteToolUnchecked(mgr, toolName) ==
    LET r == CallTool(mgr.connections, toolName)
    IN IF r.error # ""
       THEN [error |-> "MCPError: Failed to execute MCP tool", contacted |-> ""]
       ELSE [error |-> "", contacted |-> r.server]

\* MCPManager.executeTool: the not-initialized check precedes the try block.
ExecuteTool(mgr, toolName) ==
    IF ~mgr.initialized
    THEN [error |-> "MCPError: MCP manager not initialized", contacted |-> ""]
    ELSE LET r == CallTool(mgr.connections, toolName)
         IN IF r.error # ""
            THEN [error |-> "MCPError: Failed to execute MCP tool", contacted |-> ""]
            ELSE [error |-> "", contacted |-> r.server]

\* Results a remote MCP tool may answer with (MCPToolResult): up to MaxParts
\* content parts, each a text, an image or a resource, and the error flag.
ContentParts ==
    { [type |-> "text", text |-> "a"], [type |-> "text", text |-> "b"],
      [type |-> "image", text |-> ""], [type |-> "resource", text |-> ""] }

ToolResults ==
    { [content |-> c, isError |-> e] :
        c \in UNION { [1..n -> ContentParts] : n \in 1..MaxParts },
        e \in BOOLEAN }

\* Array.prototype.join on strings.
RECURSIVE Join(_, _)
Join(strs, sep) ==
    IF strs = <<>> THEN ""
    ELSE IF Len(strs) = 1 THEN strs[1]
    ELSE strs[1] \o sep \o Join(Tail(strs), sep)

\* JSON.stringify of a content array.
Stringify(content) ==
    LET part(p) == IF p.type = "text"
                   THEN "{\"type\":\"text\",\"text\":\"" \o p.text \o "\"}"
                   ELSE "{\"type\":\"" \o p.type \o "\"}"
    IN "[" \o Join([i \in 1..Len(content) |-> part(content[i])], ",") \o "]"

\* MCPManager.executeTool from the result of callTool on: an error flag is
\* thrown (and rethrown by the catch block); otherwise the texts of the text
\* parts are joined by line breaks, and when that string is empty the whole
\* content array is returned as JSON.
TranslateResult(result) ==
    IF result.isError
    THEN [error |-> "MCPError: Failed to execute MCP tool", value |-> ""]
    ELSE LET texts == SelectSeq(result.content, LAMBDA item : item.type = "text")
             textContent == Join([i \in 1..Len(texts) |-> texts[i].text], "\n")
         IN [error |-> "",
             value |-> IF textContent # "" THEN textContent
                       ELSE Stringify(result.content)]

\* executeTool resumes after `await this.client.callTool(...)` with the
\* result of the remote tool.
ReturnResult(result) ==
    /\ last' = [op |-> "result", result |-> result] @@ TranslateResult(result)
    /\ UNCHANGED <<registry, managers, mcpManager, tasks>>

\* MCPManager.validateConfiguration: one error for every entry that has
\* neither or both of the stdio and the HTTP fields (the URLs of the inputs
\* parse).  No method of the manager or the client calls it.
ValidateConfiguration(cfg) ==
    LET hasStdioConfig(e) == e.kind \in {"stdio", "both"}
        hasHttpConfig(e) == e.kind \in {"http", "both"}
        errors == { e \in Range(cfg) :
                       \/ ~hasStdioConfig(e) /\ ~hasHttpConfig(e)
                       \/ hasStdioConfig(e) /\ hasHttpConfig(e) }
    IN [valid |-> errors = {}, errors |-> { e.serverName : e \in errors }]

\* --------------------------------------------------------- HelpingAI.call
\* Variants of the routing: registry consulted before MCP; built-in names
\* consulted before the registry; no not-found branch.
CallRouteRegistryFirst(reg, mgrs, mcp, toolName) ==
    IF MapHas(reg, toolName) THEN "registry"
    ELSE IF mcp # 0 /\ IsMCPTool(mgrs[mcp], toolName) THEN "mcp"
    ELSE IF toolName = "code_interpreter" \/ toolName = "web_search" THEN "builtin"
    ELSE "none"

CallRouteBuiltinFirst(reg, mgrs, mcp, toolName) ==
    IF mcp # 0 /\ IsMCPTool(mgrs[mcp], toolName) THEN "mcp"
    ELSE IF toolName = "code_interpreter" \/ toolName = "web_search" THEN "builtin"
    ELSE IF MapHas(reg, toolName) THEN "registry"
    ELSE "none"

CallRouteNoNotFound(reg, mgrs, mcp, toolName) ==
    IF mcp # 0 /\ IsMCPTool(mgrs[mcp], toolName) THEN "mcp"
    ELSE IF MapHas(reg, toolName) THEN "registry"
    ELSE "builtin"

\* The routing of call(): MCP tool of this.mcpManager, then registry, then
\* the two built-in names, else not found.
CallRoute(reg, mgrs, mcp, toolName) ==
    IF mcp # 0 /\ IsMCPTool(mgrs[mcp], toolName) THEN "mcp"
    ELSE IF MapHas(reg, toolName) THEN "registry"
    ELSE IF toolName = "code_interpreter" \/ toolName = "web_search" THEN "builtin"
    ELSE "none"

\* What the parameters of fn receive on entry.fn(args): the whole arguments
\* object is the one positional argument, so the first parameter is bound to
\* it; every further parameter gets no argument and takes its default value
\* or undefined.
BindArguments(fn, args) ==
    [i \in 1..Len(fn.params) |->
        IF i = 1 THEN "args"
        ELSE IF fn.params[i].default # "none" THEN "default"
        ELSE "undefined"]

\* executeTool of tools/core: looks the entry up and calls entry.fn(args);
\* a throw of fn is rethrown as Error('Tool execution failed: ...').
\* fnThrows is the behaviour of the callable on this invocation.
CoreExecuteTool(reg, name, args, fnThrows) ==
    IF ~MapHas(reg, name)
    THEN [error |-> "ToolRegistrationError: not found in registry", fnEntered |-> 0,
          received |-> <<>>]
    ELSE [error |-> IF fnThrows THEN "Error: Tool execution failed" ELSE "",
          fnEntered |-> MapGet(reg, name).fn.id,
          received |-> BindArguments(MapGet(reg, name).fn, args)]

\* call(toolName, args): what ran and how the returned promise settles.  Every
\* error thrown inside the try block is rethrown as ToolExecutionError with
\* the original message appended.
CallOutcome(reg, mgrs, mcp, toolName, args, fnThrows) ==
    LET route == CallRoute(reg, mgrs, mcp, toolName)
        none == [backend |-> route, fnEntered |-> 0, contacted |-> "", builtinRan |-> "",
                 received |-> <<>>]
        Settle(o, cause) ==
            [o EXCEPT !.backend = route] @@
            [settled |-> IF cause = "" THEN "resolved" ELSE "rejected",
             error |-> IF cause = "" THEN "" ELSE "ToolExecutionError",
             cause |-> cause]
    IN CASE route = "mcp" ->
              LET r == ExecuteTool(mgrs[mcp], toolName)
              IN Settle([none EXCEPT !.contacted = r.contacted], r.error)
         [] route = "registry" ->
              LET r == CoreExecuteTool(reg, toolName, args, fnThrows)
              IN Settle([none EXCEPT !.fnEntered = r.fnEntered,
                                     !.received = r.received], r.error)
         [] route = "builtin" ->
              Settle([none EXCEPT !.builtinRan = toolName], "")
         [] OTHER ->
              Settle(none, "ToolExecutionError: Tool not found")

Call(toolName, args, fnThrows) ==
    /\ last' = [op |-> "call", name |-> toolName, args |-> args] @@
               CallOutcome(registry, managers, mcpManager, toolName, args, fnThrows)
    /\ UNCHANGED <<registry, managers, mcpManager, tasks>>

\* ------------------------------------------------------------------ tasks
TaskIds == 1..MaxTasks

\* An async call in flight carries its locals: the manager and config of a
\* lifecycle call, the connects and disconnects still to resume, the loop
\* position of processTools, the settlement a call() is waiting to deliver,
\* the process and timer of a code-interpreter run, the event source, the
\* resolved flag, the promise and the chunks of a streaming completion.
\* alone, start, quiet, crossed, settlements and first are history.
IdleTask ==
    [kind |-> "idle", mgr |-> 0, cfg |-> <<>>, pending |-> <<>>, names |-> <<>>,
     list |-> <<>>, idx |-> 0, processed |-> <<>>, alone |-> TRUE, start |-> "fresh",
     quiet |-> TRUE, crossed |-> FALSE, outcome |-> <<>>, answers |-> TRUE,
     phase |-> "", proc |-> "none", timer |-> FALSE,
     stdout |-> FALSE, stderr |-> FALSE,
     source |-> "none", resolved |-> FALSE, promise |-> "none",
     chunks |-> 0, settlements |-> 0, first |-> ""]

\* How a lifecycle call finds manager mgr: "cleaned" right after a cleanup
\* that disconnected something, "fresh" with an empty connection table,
\* "dirty" with connections in the table.
StartOf(mgr) ==
    IF mgr.connections # <<>> THEN "dirty"
    ELSE IF mgr.cleaned = "yes" THEN "cleaned"
    ELSE "fresh"

\* No chat.completions.create (processTools) is in flight.
Quiet == \A u \in TaskIds : tasks[u].kind # "processTools"

\* tsks with every cleanup in flight marked as overlapped by a create.
Unquiet(tsks) ==
    [u \in TaskIds |->
        IF tsks[u].kind = "cleanup" THEN [tsks[u] EXCEPT !.quiet = FALSE]
        ELSE tsks[u]]

\* The slot a newly started async call takes.
FreeSlot(t) ==
    /\ tasks[t].kind = "idle"
    /\ \A u \in TaskIds : u < t => tasks[u].kind # "idle"

\* No other call in flight works on manager m.
Alone(m) == \A u \in TaskIds : tasks[u].kind = "idle" \/ tasks[u].mgr # m

\* An initialize() on manager m is in flight.
Initializing(m) ==
    \E u \in TaskIds : tasks[u].kind = "initialize" /\ tasks[u].mgr = m

\* tasks with slot t replaced by task; every other call in flight on the same
\* manager is marked as overlapped, and an initialize in flight as crossed
\* when the call that starts is a cleanup.
Launch(t, task) ==
    [u \in TaskIds |->
        IF u = t THEN task
        ELSE IF tasks[u].kind # "idle" /\ tasks[u].mgr = task.mgr
        THEN [tasks[u] EXCEPT !.alone = FALSE,
                              !.crossed = @ \/ (task.kind = "cleanup"
                                                 /\ tasks[u].kind = "initialize")]
        ELSE tasks[u]]

\* serverNames.map(async ...): every connect() runs up to its first await.
Attempts(cfg) == [i \in 1..Len(cfg) |-> Connect(cfg[i])]

\* Variant of initialize without the early return on an initialized manager.
InitializeStartAgain(t, m, cfg) ==
    /\ FreeSlot(t)
    /\ m \in 1..Len(managers)
    /\ tasks' = Launch(t, [IdleTask EXCEPT
                              !.kind = "initialize", !.mgr = m, !.cfg = cfg,
                              !.pending = Attempts(cfg),
                              !.alone = Alone(m),
                              !.start = StartOf(managers[m])])
    /\ last' = [op |-> "initialize", phase |-> "started", mgr |-> m, cfg |-> cfg]
    /\ UNCHANGED <<registry, managers, mcpManager>>

\* -------------------------------------------------- MCPManager.initialize
\* initialize(config) up to `await Promise.allSettled(...)`; on an initialized
\* manager it returns at once.
InitializeStart(t, m, cfg) ==
    /\ FreeSlot(t)
    /\ m \in 1..Len(managers)
    /\ IF managers[m].initialized
       THEN /\ last' = [op |-> "initialize", phase |-> "noop", mgr |-> m, cfg |-> cfg]
            /\ UNCHANGED tasks
       ELSE /\ tasks' = Launch(t, [IdleTask EXCEPT
                                       !.kind = "initialize", !.mgr = m, !.cfg = cfg,
                                       !.pending = Attempts(cfg),
                                       !.alone = Alone(m),
                                       !.start = StartOf(managers[m])])
            /\ last' = [op |-> "initialize", phase |-> "started", mgr |-> m, cfg |-> cfg]
    /\ UNCHANGED <<registry, managers, mcpManager>>

\* Variant of the connect continuation in which the connection object is put
\* in the table whether or not its initialization succeeded.
ConnectSettleAlways(t) ==
    /\ tasks[t].kind \in {"initialize", "processTools"}
    /\ tasks[t].pending # <<>>
    /\ LET a == Head(tasks[t].pending)
           m == tasks[t].mgr
       IN /\ managers' = [managers EXCEPT ![m].connections =
                              MapSet(@, a.serverName, a.connection)]
          /\ last' = [op |-> "connect", mgr |-> m, serverName |-> a.serverName,
                      ok |-> a.ok]
    /\ tasks' = [tasks EXCEPT ![t].pending = Tail(@)]
    /\ UNCHANGED <<registry, mcpManager>>

\* The continuation of one connect() after its await: connections.set on
\* success; on failure the rejection is caught and logged by initialize.
ConnectSettle(t) ==
    /\ tasks[t].kind \in {"initialize", "processTools"}
    /\ tasks[t].pending # <<>>
    /\ LET a == Head(tasks[t].pending)
           m == tasks[t].mgr
       IN /\ managers' =
                IF a.ok
                THEN [managers EXCEPT ![m].connections =
                          MapSet(@, a.serverName, a.connection)]
                ELSE managers
          /\ last' = [op |-> "connect", mgr |-> m, serverName |-> a.serverName,
                      ok |-> a.ok]
    /\ tasks' = [tasks EXCEPT ![t].pending = Tail(@)]
    /\ UNCHANGED <<registry, mcpManager>>

\* After Promise.allSettled: this.initialized = true, the promise resolves.
InitializeFinish(t) ==
    /\ tasks[t].kind = "initialize"
    /\ tasks[t].pending = <<>>
    /\ LET m == tasks[t].mgr
           after == SetInitialized(managers[m])
       IN /\ managers' = [managers EXCEPT ![m] = after]
          /\ last' = [op |-> "initialize", phase |-> "done", mgr |-> m,
                      cfg |-> tasks[t].cfg, settled |-> "resolved",
                      alone |-> tasks[t].alone, start |-> tasks[t].start,
                      crossed |-> tasks[t].crossed,
                      tools |-> GetToolsAsOpenAIFormat(after)]
    /\ tasks' = [tasks EXCEPT ![t] = IdleTask]
    /\ UNCHANGED <<registry, mcpManager>>

\* ----------------------------------------------------- MCPManager.cleanup
\* cleanup() -> disconnectAll(): the key snapshot and the first disconnect run
\* before the first await.
CleanupStart(t, m) ==
    /\ FreeSlot(t)
    /\ m \in 1..Len(managers)
    /\ LET serverNames == MapKeys(managers[m].connections)
       IN /\ managers' =
                IF serverNames = <<>> THEN managers
                ELSE [managers EXCEPT ![m].connections =
                          Disconnect(@, Head(serverNames))]
          /\ tasks' = Launch(t, [IdleTask EXCEPT
                                     !.kind = "cleanup", !.mgr = m,
                                     !.names = IF serverNames = <<>> THEN <<>>
                                               ELSE Tail(serverNames),
                                     !.alone = Alone(m),
                                     !.start = StartOf(managers[m]),
                                     !.quiet = Quiet,
                                     !.crossed = Initializing(m)])
    /\ last' = [op |-> "cleanup", phase |-> "started", mgr |-> m]
    /\ UNCHANGED <<registry, mcpManager>>

\* disconnectAll resumes after `await this.disconnect(...)`: next server.
CleanupStep(t) ==
    /\ tasks[t].kind = "cleanup"
    /\ tasks[t].names # <<>>
    /\ LET m == tasks[t].mgr
       IN /\ managers' = [managers EXCEPT ![m].connections =
                              Disconnect(@, Head(tasks[t].names))]
          /\ last' = [op |-> "disconnect", mgr |-> m,
                      serverName |-> Head(tasks[t].names)]
    /\ tasks' = [tasks EXCEPT ![t].names = Tail(@)]
    /\ UNCHANGED <<registry, mcpManager>>

\* cleanup resumes after `await this.client.disconnectAll()`.
CleanupFinish(t) ==
    /\ tasks[t].kind = "cleanup"
    /\ tasks[t].names = <<>>
    /\ LET m == tasks[t].mgr
           after == SetUninitialized(managers[m], tasks[t].alone,
                                     tasks[t].start # "dirty")
       IN /\ managers' = [managers EXCEPT ![m] = after]
          /\ last' = [op |-> "cleanup", phase |-> "done", mgr |-> m,
                      alone |-> tasks[t].alone, quiet |-> tasks[t].quiet,
                      crossed |-> tasks[t].crossed,
                      tools |-> GetToolsAsOpenAIFormat(after)]
    /\ tasks' = [tasks EXCEPT ![t] = IdleTask]
    /\ UNCHANGED <<registry, mcpManager>>

\* new MCPManager() by the application.
NewManager ==
    /\ Len(managers) < MaxAppManagers
    /\ managers' = Append(managers, NewMCPManager)
    /\ last' = [op |-> "newManager", mgr |-> Len(managers) + 1]
    /\ UNCHANGED <<registry, mcpManager, tasks>>

\* HelpingAI.cleanup(): cleanup of this.mcpManager when there is one.
ClientCleanupStart(t) ==
    /\ mcpManager # 0
    /\ CleanupStart(t, mcpManager)

\* manager.executeTool(name, args) called directly on manager m.
ManagerExecuteTool(m, toolName) ==
    /\ m \in 1..Len(managers)
    /\ LET r == ExecuteTool(managers[m], toolName)
       IN last' = [op |-> "executeTool", mgr |-> m, name |-> toolName,
                   error |-> r.error, contacted |-> r.contacted]
    /\ UNCHANGED <<registry, managers, mcpManager, tasks>>

\* ------------------------------------------------- HelpingAI.processTools
\* The for-loop of processTools from position idx up to the next MCP block
\* (where it awaits) or the end of the list: strings and OpenAI-format
\* declarations are pushed unchanged.
RECURSIVE ProcessLoop(_, _, _)
ProcessLoop(list, idx, processed) ==
    IF idx > Len(list) \/ list[idx].type = "mcp"
    THEN [idx |-> idx, processed |-> processed]
    ELSE ProcessLoop(list, idx + 1, Append(processed, list[idx]))

\* MCP blocks of in-flight processTools calls that are not yet reached, and
\* those of a list: each will construct one MCPManager.
BlocksAhead ==
    Cardinality({p \in TaskIds \X (1..3) :
                    /\ tasks[p[1]].kind = "processTools"
                    /\ p[2] > tasks[p[1]].idx
                    /\ p[2] <= Len(tasks[p[1]].list)
                    /\ tasks[p[1]].list[p[2]].type = "mcp"})

Blocks(list) == Cardinality({i \in 1..Len(list) : list[i].type = "mcp"})

\* processTools from position idx on, with mgrs and mcp the managers and
\* this.mcpManager as the caller leaves them: either the list is exhausted and
\* the flattened list is returned, or MCPManager.processConfiguration
\* constructs a manager and initialize() on it runs up to its await.
ProcessToolsFrom(t, list, idx, processed, mgrs, mcp) ==
    LET r == ProcessLoop(list, idx, processed)
    IN IF r.idx > Len(list)
       THEN /\ managers' = mgrs
            /\ tasks' = Unquiet([tasks EXCEPT ![t] = IdleTask])
            /\ last' = [op |-> "processTools", phase |-> "done", list |-> list,
                        result |-> r.processed]
            /\ mcpManager' = mcp
       ELSE /\ managers' = Append(mgrs, NewMCPManager)
            /\ tasks' = Unquiet([tasks EXCEPT ![t] =
                            [IdleTask EXCEPT
                                !.kind = "processTools", !.mgr = Len(mgrs) + 1,
                                !.cfg = list[r.idx].cfg,
                                !.pending = Attempts(list[r.idx].cfg),
                                !.list = list, !.idx = r.idx,
                                !.processed = r.processed]])
            /\ last' = [op |-> "processTools", phase |-> "awaiting", list |-> list]
            /\ mcpManager' = mcp

\* chat.completions.create(request) -> processTools(request.tools).
ProcessToolsStart(t, list) ==
    /\ FreeSlot(t)
    /\ Len(managers) + BlocksAhead + Blocks(list) <= MaxManagers
    /\ ProcessToolsFrom(t, list, 1, <<>>, managers, mcpManager)
    /\ UNCHANGED registry

\* processTools resumes after `await MCPManager.processConfiguration(tool)`:
\* the new manager is initialized, becomes this.mcpManager and contributes
\* its tools; the loop goes on.
ProcessToolsResume(t) ==
    /\ tasks[t].kind = "processTools"
    /\ tasks[t].pending = <<>>
    /\ LET m == tasks[t].mgr
           mgrs == [managers EXCEPT ![m] = SetInitialized(@)]
           mcpTools == GetToolsAsOpenAIFormat(mgrs[m])
       IN ProcessToolsFrom(t, tasks[t].list, tasks[t].idx + 1,
                           tasks[t].processed \o mcpTools, mgrs, m)
    /\ UNCHANGED registry

\* ------------------------------------------- HelpingAI.call, in flight
\* How the promise a registered callable returns behaves: it fulfils, it
\* rejects (or the callable throws), or it never settles.
FnAnswers == {"returns", "throws", "never"}

\* call(toolName, args) up to its await: the route is chosen and the backend
\* entered synchronously; the call then waits for the backend's promise.  The
\* mock MCP and built-in backends return settled promises; entry.fn(args) is
\* awaited with no timer, so the call waits for as long as fn takes.
CallStart(t, toolName, args, answer) ==
    /\ FreeSlot(t)
    /\ LET o == CallOutcome(registry, managers, mcpManager, toolName, args,
                            answer = "throws")
       IN /\ (o.fnEntered = 0) => (answer = "returns")
          /\ tasks' = [tasks EXCEPT ![t] =
                          [IdleTask EXCEPT
                              !.kind = "call",
                              !.outcome = <<[op |-> "call", name |-> toolName,
                                            args |-> args] @@ o>>,
                              !.answers = (answer # "never")]]
          /\ last' = [op |-> "callStart", name |-> toolName, backend |-> o.backend]
    /\ UNCHANGED <<registry, managers, mcpManager>>

\* The awaited promise has settled: call() resumes and its own promise
\* settles (return value, or ToolExecutionError from the catch block).
CallSettle(t) ==
    /\ tasks[t].kind = "call"
    /\ tasks[t].answers
    /\ last' = Head(tasks[t].outcome)
    /\ tasks' = [tasks EXCEPT ![t] = IdleTask]
    /\ UNCHANGED <<registry, managers, mcpManager>>

\* --------------------------------------------- CodeInterpreterTool.execute
\* Arguments objects of execute(kwargs): the keys present and the code text.
Kwargs ==
    { [keys |-> {}, code |-> ""],
      [keys |-> {"code"}, code |-> ""],
      [keys |-> {"code"}, code |-> " "],
      [keys |-> {"code"}, code |-> "print(1)"],
      [keys |-> {"code", "lang"}, code |-> "print(1)"] }

\* The parameters schema each built-in tool declares in its constructor.
BuiltinParameters(toolName) ==
    IF toolName = "code_interpreter"
    THEN [properties |-> {"code"}, required |-> {"code"}]
    ELSE [properties |-> {"query", "max_results"}, required |-> {"query"}]

\* String.prototype.trim on the code texts above.
Trim(code) == IF code = " " THEN "" ELSE code

\* BuiltinToolBase.validateParameters with the parameters of the code
\* interpreter: `code` is required, nothing else is allowed.
ValidateParameters(kwargs) ==
    IF "code" \notin kwargs.keys THEN "Error: Missing required parameter"
    ELSE IF kwargs.keys \ {"code"} # {} THEN "Error: Unknown parameters"
    ELSE ""

\* What execute() settles with.
Executed(settled, error, value, timedOut, proc) ==
    [op |-> "execute", phase |-> "done", settled |-> settled, error |-> error,
     value |-> value, timedOut |-> timedOut, proc |-> proc]

\* execute(kwargs) up to `await this.checkPythonAvailability()`, which spawns
\* `python3 --version` and waits for its close or error event (no timer).
Execute(t, kwargs) ==
    /\ FreeSlot(t)
    /\ LET invalid == ValidateParameters(kwargs)
       IN IF invalid # ""
          THEN /\ last' = Executed("rejected", invalid, "", FALSE, "none")
               /\ UNCHANGED tasks
          ELSE IF Trim(kwargs.code) = ""
          THEN /\ last' = Executed("resolved", "", "No code provided to execute.",
                                   FALSE, "none")
               /\ UNCHANGED tasks
          ELSE /\ tasks' = [tasks EXCEPT ![t] =
                               [IdleTask EXCEPT !.kind = "execute",
                                                !.phase = "check",
                                                !.proc = "running"]]
               /\ last' = [op |-> "execute", phase |-> "check"]
    /\ UNCHANGED <<registry, managers, mcpManager>>

\* close event of `python3 --version`.  Exit code 0: executeCodeSimple writes
\* the script, runPythonScript spawns python3 on it and arms the timer.  Any
\* other code: the rejection is caught by execute, which returns a string.
CheckClose(t, code) ==
    /\ tasks[t].kind = "execute"
    /\ tasks[t].phase = "check"
    /\ IF code = 0
       THEN /\ tasks' = [tasks EXCEPT ![t].phase = "run", ![t].proc = "running",
                                      ![t].timer = TRUE]
            /\ last' = [op |-> "execute", phase |-> "run"]
       ELSE /\ tasks' = [tasks EXCEPT ![t] = IdleTask]
            /\ last' = Executed("resolved", "",
                                "Code execution failed: Python3 is not available",
                                FALSE, "closed")
    /\ UNCHANGED <<registry, managers, mcpManager>>

\* error event of `python3 --version` (it could not be spawned).
CheckError(t) ==
    /\ tasks[t].kind = "execute"
    /\ tasks[t].phase = "check"
    /\ tasks' = [tasks EXCEPT ![t] = IdleTask]
    /\ last' = Executed("resolved", "",
                        "Code execution failed: Python3 is not available",
                        FALSE, "none")
    /\ UNCHANGED <<registry, managers, mcpManager>>

\* data events of the script process: output is accumulated.
ScriptData(t, stream) ==
    /\ tasks[t].kind = "execute"
    /\ tasks[t].phase = "run"
    /\ tasks[t].proc = "running"
    /\ IF stream = "stdout"
       THEN /\ ~tasks[t].stdout
            /\ tasks' = [tasks EXCEPT ![t].stdout = TRUE]
       ELSE /\ ~tasks[t].stderr
            /\ tasks' = [tasks EXCEPT ![t].stderr = TRUE]
    /\ last' = [op |-> "execute", phase |-> "data"]
    /\ UNCHANGED <<registry, managers, mcpManager>>

\* close event of the script process before the timer fired: clearTimeout,
\* resolve({stdout, stderr}); executeCodeSimple joins the parts, removes the
\* script file and execute returns the text.
ScriptClose(t) ==
    /\ tasks[t].kind = "execute"
    /\ tasks[t].phase = "run"
    /\ tasks' = [tasks EXCEPT ![t] = IdleTask]
    /\ last' = Executed("resolved", "",
                        IF tasks[t].stdout \/ tasks[t].stderr
                        THEN "stdout/stderr parts"
                        ELSE "Code executed successfully with no output.",
                        FALSE, "closed")
    /\ UNCHANGED <<registry, managers, mcpManager>>

\* error event of the script process (it could not be spawned): clearTimeout,
\* reject(error); the catch of executeCodeSimple returns a string.
ScriptError(t) ==
    /\ tasks[t].kind = "execute"
    /\ tasks[t].phase = "run"
    /\ ~tasks[t].stdout /\ ~tasks[t].stderr
    /\ tasks' = [tasks EXCEPT ![t] = IdleTask]
    /\ last' = Executed("resolved", "", "Code execution error: spawn failed",
                        FALSE, "none")
    /\ UNCHANGED <<registry, managers, mcpManager>>

\* The timer fires while the script process runs: kill('SIGKILL'),
\* reject(Error('Code execution timed out ...')).  The catch block of
\* executeCodeSimple turns the rejection into the string it returns, the
\* finally block removes the script file, and execute returns that string.
\* The close handler of the killed process is still to run.
ScriptTimeout(t) ==
    /\ tasks[t].kind = "execute"
    /\ tasks[t].phase = "run"
    /\ tasks[t].timer
    /\ tasks' = [tasks EXCEPT ![t].phase = "killed", ![t].proc = "killed",
                              ![t].timer = FALSE]
    /\ last' = Executed("resolved", "",
                        "Code execution error: Code execution timed out",
                        TRUE, "killed")
    /\ UNCHANGED <<registry, managers, mcpManager>>

\* close event of the killed process: clearTimeout and resolve on a promise
\* that is already rejected, both without effect.
ScriptReaped(t) ==
    /\ tasks[t].kind = "execute"
    /\ tasks[t].phase = "killed"
    /\ tasks' = [tasks EXCEPT ![t] = IdleTask]
    /\ last' = [op |-> "execute", phase |-> "reaped"]
    /\ UNCHANGED <<registry, managers, mcpManager>>

\* ------------------------------------ HelpingAI.createStreamingCompletion
\* Variant of the guarded settlement without the test of `resolved`.
SettleEvery(task, outcome) ==
    [task EXCEPT !.resolved = TRUE,
                 !.promise = IF @ = "pending" THEN outcome ELSE @,
                 !.settlements = @ + 1]

\* `if (!resolved) { resolved = true; resolve(...) or reject(...) }`: a
\* promise keeps the outcome of the first resolve or reject it receives;
\* settlements counts the calls of resolve and reject.
SettleOnce(task, outcome) ==
    IF task.resolved THEN task
    ELSE [task EXCEPT !.resolved = TRUE,
                      !.promise = IF @ = "pending" THEN outcome ELSE @,
                      !.settlements = @ + 1]

\* task with event noted as the first settling event when none occurred yet.
Noted(task, event) ==
    [task EXCEPT !.first = IF @ = "" THEN event ELSE @]

\* The executor of the promise: the event source is opened, the handlers are
\* installed and the 100 ms timer is armed.
CreateStreamingCompletion(t) ==
    /\ FreeSlot(t)
    /\ tasks' = [tasks EXCEPT ![t] =
                    [IdleTask EXCEPT !.kind = "stream", !.source = "open",
                                     !.timer = TRUE, !.promise = "pending"]]
    /\ last' = [op |-> "stream", task |-> t, event |-> "create"]
    /\ UNCHANGED <<registry, managers, mcpManager>>

\* event.data of a message: the end marker, a chunk that parses as JSON, and
\* text that does not.
StreamData == {"[DONE]", "chunk", "garbage"}

\* eventSource.onmessage: '[DONE]' closes the source and resolves; a chunk
\* that parses is pushed; one that does not is logged and dropped.
StreamMessage(t, data) ==
    /\ tasks[t].kind = "stream"
    /\ tasks[t].source = "open"
    /\ tasks' = [tasks EXCEPT ![t] =
                    IF data = "[DONE]"
                    THEN SettleOnce(Noted([@ EXCEPT !.source = "closed"], "done"),
                                    "fulfilled")
                    ELSE IF data = "chunk" /\ @.chunks < MaxChunks
                    THEN [@ EXCEPT !.chunks = @ + 1]
                    ELSE @]
    /\ last' = [op |-> "stream", task |-> t, event |-> data]
    /\ UNCHANGED <<registry, managers, mcpManager>>

\* eventSource.onerror: closes the source and rejects with NetworkError.
StreamError(t) ==
    /\ tasks[t].kind = "stream"
    /\ tasks[t].source = "open"
    /\ tasks' = [tasks EXCEPT ![t] =
                    SettleOnce(Noted([@ EXCEPT !.source = "closed"], "error"),
                               "rejected")]
    /\ last' = [op |-> "stream", task |-> t, event |-> "error"]
    /\ UNCHANGED <<registry, managers, mcpManager>>

\* The setTimeout callback, 100 ms after the call: resolves with the chunks
\* collected so far.  The timer is never cleared and the source stays as it is.
StreamTimer(t) ==
    /\ tasks[t].kind = "stream"
    /\ tasks[t].timer
    /\ tasks' = [tasks EXCEPT ![t] =
                    SettleOnce(Noted([@ EXCEPT !.timer = FALSE], "timer"),
                               "fulfilled")]
    /\ last' = [op |-> "stream", task |-> t, event |-> "timer"]
    /\ UNCHANGED <<registry, managers, mcpManager>>

\* ---------------------------------------------------------- specification
Init ==
    /\ registry = <<>>
    /\ managers = <<>>
    /\ mcpManager = 0
    /\ tasks = [t \in TaskIds |-> IdleTask]
    /\ last = [op |-> "init"]

Next ==
    \/ \E fn \in Fns : Tools(fn)
    \/ \E n \in ToolNames : Remove(n)
    \/ Clear
    \/ \E n \in ToolNames, a \in ArgSets, th \in BOOLEAN : Call(n, a, th)
    \/ NewManager
    \/ \E t \in TaskIds, m \in 1..MaxManagers, c \in Configs : InitializeStart(t, m, c)
    \/ \E t \in TaskIds : ConnectSettle(t)
    \/ \E t \in TaskIds : InitializeFinish(t)
    \/ \E t \in TaskIds, m \in 1..MaxManagers : CleanupStart(t, m)
    \/ \E t \in TaskIds : CleanupStep(t)
    \/ \E t \in TaskIds : CleanupFinish(t)
    \/ \E m \in 1..MaxManagers, n \in ToolNames : ManagerExecuteTool(m, n)
    \/ \E t \in TaskIds, l \in ToolLists : ProcessToolsStart(t, l)
    \/ \E t \in TaskIds : ProcessToolsResume(t)
    \/ \E t \in TaskIds : ClientCleanupStart(t)
    \/ \E t \in TaskIds, n \in ToolNames, a \in ArgSets, w \in FnAnswers :
           CallStart(t, n, a, w)
    \/ \E t \in TaskIds : CallSettle(t)
    \/ \E t \in TaskIds, k \in Kwargs : Execute(t, k)
    \/ \E t \in TaskIds, c \in {0, 1} : CheckClose(t, c)
    \/ \E t \in TaskIds : CheckError(t)
    \/ \E t \in TaskIds, s \in {"stdout", "stderr"} : ScriptData(t, s)
    \/ \E t \in TaskIds : ScriptClose(t)
    \/ \E t \in TaskIds : ScriptError(t)
    \/ \E t \in TaskIds : ScriptTimeout(t)
    \/ \E t \in TaskIds : ScriptReaped(t)
    \/ \E fn \in Callables : Infer(fn)
    \/ \E r \in ToolResults : ReturnResult(r)
    \/ \E t \in TaskIds : CreateStreamingCompletion(t)
    \/ \E t \in TaskIds, d \in StreamData : StreamMessage(t, d)
    \/ \E t \in TaskIds : StreamError(t)
    \/ \E t \in TaskIds : StreamTimer(t)

Spec == Init /\ [][Next]_vars

\* The client and the registry: HelpingAI keeps its managers private, so they
\* are only ever driven by processTools and by HelpingAI.cleanup().
NextClient ==
    \/ \E fn \in Fns : Tools(fn)
    \/ \E n \in ToolNames : Remove(n)
    \/ Clear
    \/ \E n \in ToolNames, a \in ArgSets, th \in BOOLEAN : Call(n, a, th)
    \/ \E t \in TaskIds, l \in ToolLists : ProcessToolsStart(t, l)
    \/ \E t \in TaskIds : ConnectSettle(t)
    \/ \E t \in TaskIds : ProcessToolsResume(t)
    \/ \E t \in TaskIds : ClientCleanupStart(t)
    \/ \E t \in TaskIds : CleanupStep(t)
    \/ \E t \in TaskIds : CleanupFinish(t)

SpecClient == Init /\ [][NextClient]_vars

\* An MCPManager the application constructs and drives directly.
NextManager ==
    \/ NewManager
    \/ \E t \in TaskIds, m \in 1..MaxAppManagers, c \in Configs : InitializeStart(t, m, c)
    \/ \E t \in TaskIds : ConnectSettle(t)
    \/ \E t \in TaskIds : InitializeFinish(t)
    \/ \E t \in TaskIds, m \in 1..MaxAppManagers : CleanupStart(t, m)
    \/ \E t \in TaskIds : CleanupStep(t)
    \/ \E t \in TaskIds : CleanupFinish(t)
    \/ \E m \in 1..MaxAppManagers, n \in ToolNames : ManagerExecuteTool(m, n)

SpecManager == Init /\ [][NextManager]_vars

\* Calls in flight against the registry: the event loop resumes a call whose
\* awaited promise has settled.
NextInvoke ==
    \/ \E fn \in Fns : Tools(fn)
    \/ \E n \in ToolNames : Remove(n)
    \/ Clear
    \/ \E t \in TaskIds, n \in ToolNames, a \in ArgSets, w \in FnAnswers :
           CallStart(t, n, a, w)
    \/ \E t \in TaskIds : CallSettle(t)

SpecInvoke ==
    Init /\ [][NextInvoke]_vars /\ \A t \in TaskIds : WF_vars(CallSettle(t))

\* The code interpreter tool, driven by execute() and by the events of the
\* processes it spawns.
NextInterpreter ==
    \/ \E t \in TaskIds, k \in Kwargs : Execute(t, k)
    \/ \E t \in TaskIds, c \in {0, 1} : CheckClose(t, c)
    \/ \E t \in TaskIds : CheckError(t)
    \/ \E t \in TaskIds, s \in {"stdout", "stderr"} : ScriptData(t, s)
    \/ \E t \in TaskIds : ScriptClose(t)
    \/ \E t \in TaskIds : ScriptError(t)
    \/ \E t \in TaskIds : ScriptTimeout(t)
    \/ \E t \in TaskIds : ScriptReaped(t)

SpecInterpreter == Init /\ [][NextInterpreter]_vars

\* Schema inference applied to callables.
NextSchema == \E fn \in Callables : Infer(fn)

SpecSchema == Init /\ [][NextSchema]_vars

\* The answers of remote MCP tools, as executeTool hands them to its caller.
NextResult == \E r \in ToolResults : ReturnResult(r)

SpecResult == Init /\ [][NextResult]_vars

\* Streaming completions and the events of their sources and timers.
NextStream ==
    \/ \E t \in TaskIds : CreateStreamingCompletion(t)
    \/ \E t \in TaskIds, d \in StreamData : StreamMessage(t, d)
    \/ \E t \in TaskIds : StreamError(t)
    \/ \E t \in TaskIds : StreamTimer(t)

SpecStream == Init /\ [][NextStream]_vars

\* ================================================================ claims
\* Vocabulary of the claims, stated on the raw state.
InRegistry(reg, n) == \E i \in 1..Len(reg) : reg[i].k = n

EntryOf(reg, n) == (CHOOSE i \in 1..Len(reg) : reg[i].k = n)

\* n is declared by a connected server in the table of manager mgr.
OfferedBy(mgr, n) ==
    \E i \in 1..Len(mgr.connections) :
        /\ mgr.connections[i].v.initialized
        /\ n \in Range(mgr.connections[i].v.tools)

\* n is offered by a connected server of the client's initialized manager.
OfferedByActiveMCP(n) ==
    /\ mcpManager # 0
    /\ managers[mcpManager].initialized
    /\ OfferedBy(managers[mcpManager], n)

OfferedByAnyServer(n) == \E m \in 1..Len(managers) : OfferedBy(managers[m], n)

BuiltinNames == {"code_interpreter", "web_search"}

\* What a server entry is expected to contribute once connected.
Connects(e) == e.kind # "none"

ToolOfEntry(e) ==
    IF e.kind = "http" THEN e.serverName \o "_http_tool" ELSE e.serverName \o "_tool"

ExpectedDeclarations(cfg) ==
    LET good == SelectSeq(cfg, Connects)
    IN [i \in 1..Len(good) |-> [type |-> "function", name |-> ToolOfEntry(good[i])]]

ExpectedServers(cfg) ==
    LET good == SelectSeq(cfg, Connects)
    IN [i \in 1..Len(good) |-> good[i].serverName]

\* ---- C1
\* C1: register(n, ...) while n is present raises a registration error and
\* leaves the entry as it was, so the registry never holds two entries for one
\* name; when n is absent (never registered, removed, or cleared) register
\* succeeds and stores the callable; remove(n) and clear() leave n absent.
\* (An anonymous callable never reaches register: see C20.)
C1_NoTwoEntries ==
    \A i, j \in 1..Len(registry) : registry[i].k = registry[j].k => i = j

C1_RegisterLaw ==
    /\ (last'.op = "register" /\ last'.name # "") =>
          IF InRegistry(registry, last'.name)
          THEN /\ last'.error = "ToolRegistrationError"
               /\ registry' = registry
          ELSE /\ last'.error = ""
               /\ InRegistry(registry', last'.name)
               /\ registry'[EntryOf(registry', last'.name)].v.fn.id = last'.fn
    /\ last'.op = "remove" => ~InRegistry(registry', last'.name)
    /\ last'.op = "clear" => registry' = <<>>

C1_Uniqueness == [](C1_NoTwoEntries) /\ [][C1_RegisterLaw]_vars

\* A second callable was offered under a registered name and was refused.
C1_Witness ==
    /\ last.op = "register"
    /\ last.error = "ToolRegistrationError"
    /\ InRegistry(registry, last.name)
    /\ registry[EntryOf(registry, last.name)].v.fn.id # last.fn

\* ---- C2
\* C2: a call of a name that is both offered by a connected server of the
\* client's initialized MCP manager and present in the registry is delegated
\* to the MCP manager; the registered function is not entered.
C2_RemoteOverLocal ==
    (/\ last.op = "call"
     /\ OfferedByActiveMCP(last.name)
     /\ InRegistry(registry, last.name))
    => /\ last.backend = "mcp"
       /\ last.contacted # ""
       /\ last.fnEntered = 0

C2_Witness ==
    /\ last.op = "call"
    /\ OfferedByActiveMCP(last.name)
    /\ InRegistry(registry, last.name)
    /\ last.backend = "mcp"

\* ---- C3
\* C3: a call of a built-in name that is registered and that no MCP tool of
\* the client's manager carries runs the registered function, not the
\* built-in tool.
C3_LocalOverBuiltin ==
    (/\ last.op = "call"
     /\ last.name \in BuiltinNames
     /\ InRegistry(registry, last.name)
     /\ ~OfferedByActiveMCP(last.name))
    => /\ last.backend = "registry"
       /\ last.fnEntered = registry[EntryOf(registry, last.name)].v.fn.id
       /\ last.builtinRan = ""

C3_Witness ==
    /\ last.op = "call"
    /\ last.name = "code_interpreter"
    /\ InRegistry(registry, last.name)
    /\ last.fnEntered = 3

\* ---- C4
\* C4: a call that reaches a registered tool with a required parameter
\* missing from the arguments rejects with SchemaValidationError and the
\* registered function is not entered.
C4_ArgumentValidation ==
    (/\ last.op = "call"
     /\ last.backend = "registry"
     /\ \E p \in Range(registry[EntryOf(registry, last.name)].v.tool.required) :
            p \notin last.args)
    => /\ last.fnEntered = 0
       /\ last.settled = "rejected"
       /\ last.cause = "SchemaValidationError"

\* ---- C5
\* C5: a call of a name that is not in the registry, is not a built-in name
\* and is not offered by any connected MCP server rejects with the
\* tool-not-found error, and no backend runs.
C5_UnknownTool ==
    (/\ last.op = "call"
     /\ ~InRegistry(registry, last.name)
     /\ last.name \notin BuiltinNames
     /\ ~OfferedByAnyServer(last.name))
    => /\ last.settled = "rejected"
       /\ last.error = "ToolExecutionError"
       /\ last.cause = "ToolExecutionError: Tool not found"
       /\ last.fnEntered = 0
       /\ last.contacted = ""
       /\ last.builtinRan = ""

C5_Witness ==
    /\ last.op = "call"
    /\ last.name = "nope"
    /\ registry # <<>>
    /\ mcpManager # 0
    /\ last.settled = "rejected"

\* ---- C6
\* C6: every name of the flattened tool list processTools returns is routed
\* by call() to a backend (not to not-found) while registry and MCP state are
\* as processTools left them.
C6_ListedNamesResolve ==
    (last.op = "processTools" /\ last.phase = "done")
    => \A i \in 1..Len(last.result) :
          CallRoute(registry, managers, mcpManager, last.result[i].name) # "none"

\* ---- C7
\* C7: an initialize(config) that runs on its own on a manager with an empty
\* connection table resolves, leaves the manager initialized (also when no
\* server connected), and the declarations then returned are exactly those of
\* the entries that connect; entries that fail contribute nothing.
C7_PartialFailure ==
    (/\ last.op = "initialize"
     /\ last.phase = "done"
     /\ last.alone
     /\ last.start # "dirty")
    => /\ last.settled = "resolved"
       /\ managers[last.mgr].initialized
       /\ MapKeys(managers[last.mgr].connections) = ExpectedServers(last.cfg)
       /\ last.tools = ExpectedDeclarations(last.cfg)

\* A config with one entry that connects and one that fails was initialized.
C7_Witness ==
    /\ last.op = "initialize"
    /\ last.phase = "done"
    /\ last.alone
    /\ last.start # "dirty"
    /\ \E i, j \in 1..Len(last.cfg) : Connects(last.cfg[i]) /\ ~Connects(last.cfg[j])
    /\ Len(last.tools) = 1

\* ---- C8
\* C8: while an initialize() is in flight (it has not yet set the flag), the
\* manager is not initialized and exposes none of the connections made so
\* far through getConnectedServers() / getConnectionStatus().
C8_NeverPartial ==
    \A t \in TaskIds :
        (tasks[t].kind = "initialize" /\ tasks[t].alone /\ tasks[t].start # "dirty")
        => /\ ~managers[tasks[t].mgr].initialized
           /\ GetConnectedServers(managers[tasks[t].mgr].connections) = <<>>
           /\ GetConnectionStatus(managers[tasks[t].mgr].connections) = {}

\* ---- C9
\* C9: executeTool on a manager that is not initialized fails with the
\* not-initialized MCPError and contacts no connection.
C9_NotInitialized ==
    (/\ last.op = "executeTool"
     /\ ~managers[last.mgr].initialized)
    => /\ last.error = "MCPError: MCP manager not initialized"
       /\ last.contacted = ""

\* The tool asked for is declared by a connection in the table of the
\* uninitialized manager, and the call is refused all the same.
C9_Witness ==
    /\ last.op = "executeTool"
    /\ ~managers[last.mgr].initialized
    /\ OfferedBy(managers[last.mgr], last.name)
    /\ last.error = "MCPError: MCP manager not initialized"

\* ---- C10
\* C10: when a cleanup() that ran on its own completes, the connection table
\* is empty and the manager uninitialized (no tools listed, isMCPTool false
\* for every name); an initialize(config2) that follows it and runs on its own
\* leaves exactly the servers of config2 connected and lists exactly their
\* tools.
C10_CleanupThenInitialize ==
    /\ (/\ last.op = "cleanup"
        /\ last.phase = "done"
        /\ last.alone)
       => /\ managers[last.mgr].connections = <<>>
          /\ ~managers[last.mgr].initialized
          /\ last.tools = <<>>
          /\ \A n \in ToolNames \cup {"s2_tool"} : ~IsMCPTool(managers[last.mgr], n)
    /\ (/\ last.op = "initialize"
        /\ last.phase = "done"
        /\ last.alone
        /\ last.start = "cleaned")
       => /\ managers[last.mgr].initialized
          /\ MapKeys(managers[last.mgr].connections) = ExpectedServers(last.cfg)
          /\ last.tools = ExpectedDeclarations(last.cfg)

\* A manager that held connections was cleaned up and then initialized with
\* a config: it lists the tools of that config only.
C10_Witness ==
    /\ last.op = "initialize"
    /\ last.phase = "done"
    /\ last.alone
    /\ last.start = "cleaned"
    /\ last.cfg = <<Srv("s1", "http"), Srv("s2", "both")>>
    /\ last.tools = <<[type |-> "function", name |-> "s1_http_tool"],
                      [type |-> "function", name |-> "s2_tool"]>>

\* ---- C11
\* C11: when a HelpingAI.cleanup() completes that no create overlapped (none
\* was in flight when it started, none started before it completed), no
\* manager built for the client by an earlier create still holds a
\* connection.
C11_NoConnectionLeft ==
    (/\ last.op = "cleanup"
     /\ last.phase = "done"
     /\ last.quiet)
    => \A m \in 1..Len(managers) : managers[m].connections = <<>>

\* ---- C12
\* C12: when the backend call() selected ran and failed (the registered
\* function threw), call() does not reject: its promise resolves, with a
\* failure result.
C12_NormalizedFailure ==
    (/\ last.op = "call"
     /\ last.fnEntered # 0
     /\ last.cause = "Error: Tool execution failed")
    => /\ last.settled = "resolved"
       /\ last.error = ""

\* ---- C13
\* C13: every call() in flight eventually settles, whatever backend it was
\* routed to and whether or not the backend ever answers.
C13_InvokeSettles ==
    \A t \in TaskIds : (tasks[t].kind = "call") ~> (tasks[t].kind # "call")

\* ---- C14
\* C14: when the timer of the code interpreter fires while the script process
\* runs, the process is killed and execute() ends with a timeout error: its
\* promise rejects with TimeoutError instead of resolving to a value.
C14_TimeoutEnforced ==
    (/\ last.op = "execute"
     /\ last.phase = "done"
     /\ last.timedOut)
    => /\ last.proc = "killed"
       /\ last.settled = "rejected"
       /\ last.error = "TimeoutError"

\* ---- C15
\* What the elements of a tool list yield, in list order: a string or a
\* declaration yields itself, an MCP block the declarations of its servers.
Yielded(list) ==
    Flatten([i \in 1..Len(list) |->
                IF list[i].type = "mcp" THEN ExpectedDeclarations(list[i].cfg)
                ELSE <<list[i]>>])

\* s without the elements whose name occurred earlier in s.
RECURSIVE KeepFirst(_)
KeepFirst(s) ==
    IF s = <<>> THEN <<>>
    ELSE LET init == KeepFirst(SubSeq(s, 1, Len(s) - 1))
             x == s[Len(s)]
         IN IF \E i \in 1..Len(init) : init[i].name = x.name
            THEN init
            ELSE Append(init, x)

\* C15: the list processTools returns holds no two elements of one name; of
\* the elements the tool list yields under one name, the first is kept.
C15_Deduplicated ==
    (last.op = "processTools" /\ last.phase = "done")
    => /\ \A i, j \in 1..Len(last.result) :
              last.result[i].name = last.result[j].name => i = j
       /\ last.result = KeepFirst(Yielded(last.list))

\* ---- C16
\* C16: the set of declarations processTools returns for a tool list is
\* determined by the list alone, whatever the registry holds and whatever
\* managers earlier resolutions have built; resolving the same list again
\* therefore returns the same set.
C16_ResolutionIdempotent ==
    (last.op = "processTools" /\ last.phase = "done")
    => Range(last.result) = Range(Yielded(last.list))

\* The list with the declaration and the s1 block has been resolved for the
\* second time: both managers were built from its MCP block.
C16_Witness ==
    /\ last.op = "processTools"
    /\ last.phase = "done"
    /\ last.list = <<Decl("s1_http_tool"),
                     Mcp(<<Srv("s1", "http"), Srv("s2", "none")>>)>>
    /\ Len(managers) = 2
    /\ managers[1].initialized /\ managers[2].initialized
    /\ MapKeys(managers[1].connections) = <<"s1">>
    /\ managers[1].connections = managers[2].connections
    /\ registry # <<>>

\* ---- C17
\* The sources that provide name n: the registry, the built-in catalogue,
\* the connected MCP servers.
SourcesOf(n) ==
    (IF InRegistry(registry, n) THEN {"registry"} ELSE {}) \cup
    (IF n \in BuiltinNames THEN {"builtin"} ELSE {}) \cup
    (IF OfferedByAnyServer(n) THEN {"mcp"} ELSE {})

\* C17: a name provided by two sources is reported as a configuration
\* error: a registration succeeds only for a name no other source provides,
\* a call of a name two sources provide is rejected instead of being routed
\* to one of them, and a resolved tool list holds no such name.
C17_NamespaceUnique ==
    /\ (last.op = "register" /\ last.error = "")
       => SourcesOf(last.name) = {"registry"}
    /\ (last.op = "call" /\ Cardinality(SourcesOf(last.name)) > 1)
       => /\ last.settled = "rejected"
          /\ last.backend = "none"
    /\ (last.op = "processTools" /\ last.phase = "done")
       => \A i \in 1..Len(last.result) :
             Cardinality(SourcesOf(last.result[i].name)) <= 1

\* ---- C18
\* C18: the inferred declaration of a callable has one property per declared
\* parameter and no other, and its required list holds exactly the declared
\* parameters that have no default value.
C18_RequiredInference ==
    (last.op = "schema")
    => LET ps == last.fn.params
       IN /\ last.schema.properties = {ps[i].name : i \in 1..Len(ps)}
          /\ Range(last.schema.required) =
                {ps[i].name : i \in {k \in 1..Len(ps) : ps[k].default = "none"}}

\* ---- C19
\* The values the parameters of fn are expected to receive from args: the
\* value stored under the parameter's name, or (name absent) the default
\* value or undefined.
BoundByName(fn, args) ==
    [i \in 1..Len(fn.params) |->
        IF fn.params[i].name \in args THEN "args." \o fn.params[i].name
        ELSE IF fn.params[i].default # "none" THEN "default"
        ELSE "undefined"]

\* C19: a call that runs a registered function which returns enters the
\* function with the values of args bound to its parameters by name, and
\* resolves.
C19_ArgumentsByName ==
    (/\ last.op = "call"
     /\ last.backend = "registry"
     /\ last.fnEntered # 0
     /\ last.cause = "")
    => /\ last.settled = "resolved"
       /\ last.received =
             BoundByName(registry[EntryOf(registry, last.name)].v.fn, last.args)

\* ---- C20
\* C20: tools(fn) on a callable without a name raises a registration error
\* and leaves the registry exactly as it was; the registry never holds an
\* entry under the empty name.
C20_NoUnnamedEntry == ~InRegistry(registry, "")

C20_UnnamedLaw ==
    (last'.op = "register" /\ last'.name = "")
    => /\ last'.error = "ToolRegistrationError"
       /\ registry' = registry

C20_UnnamedCallable == [](C20_NoUnnamedEntry) /\ [][C20_UnnamedLaw]_vars

\* An anonymous function was offered to a registry that holds entries, and
\* was refused.
C20_Witness ==
    /\ last.op = "register"
    /\ last.name = ""
    /\ last.fn = 4
    /\ last.error = "ToolRegistrationError"
    /\ registry # <<>>

\* ---------------------------------------------------------------- C21
\* C21: a configuration that validateConfiguration finds malformed (an entry
\* with both the stdio and the HTTP fields, or with neither) is rejected
\* before any connection attempt is made for any of its servers: while an
\* initialize or processTools call on such a configuration is in flight, on
\* its own on a manager it found with an empty connection table, that table
\* stays empty.
C21_MalformedRejected ==
    \A t \in TaskIds :
        (/\ tasks[t].kind \in {"initialize", "processTools"}
         /\ ~ValidateConfiguration(tasks[t].cfg).valid
         /\ tasks[t].alone
         /\ tasks[t].start # "dirty")
        => managers[tasks[t].mgr].connections = <<>>

\* ---------------------------------------------------------------- C22
\* C22: a built-in tool executed by name through the client's call with an
\* arguments object that misses a required parameter of the tool's schema,
\* or carries a parameter the schema does not declare, fails: the promise
\* rejects (and so nothing external was started).
C22_BuiltinValidated ==
    (/\ last.op = "call"
     /\ last.backend = "builtin"
     /\ LET p == BuiltinParameters(last.name)
        IN ~(p.required \subseteq last.args) \/ ~(last.args \subseteq p.properties))
    => last.settled = "rejected"

\* ---------------------------------------------------------------- C23
\* The texts of the text-typed parts of a content array, in order.
TextsOf(content) ==
    LET texts == SelectSeq(content, LAMBDA item : item.type = "text")
    IN [i \in 1..Len(texts) |-> texts[i].text]

OwnersOf(mgr, n) ==
    { i \in 1..Len(mgr.connections) : n \in Range(mgr.connections[i].v.tools) }

\* The owner that entered the table first.
FirstOwner(mgr, n) ==
    mgr.connections[CHOOSE i \in OwnersOf(mgr, n) :
                        \A j \in OwnersOf(mgr, n) : i <= j].k

C24_ForwardedToFirst ==
    (/\ last.op = "executeTool"
     /\ managers[last.mgr].initialized
     /\ OwnersOf(managers[last.mgr], last.name) # {})
    => /\ last.error = ""
       /\ last.contacted = FirstOwner(managers[last.mgr], last.name)
       /\ IsMCPTool(managers[last.mgr], last.name)

C24_Stable ==
    (/\ last.op = "executeTool" /\ last'.op = "executeTool"
     /\ last'.mgr = last.mgr /\ last'.name = last.name
     /\ managers' = managers)
    => last'.contacted = last.contacted

\* C24: when connected servers of an initialized manager declare a tool of
\* the same name, executeTool forwards the call to the owner that entered the
\* connection table first and isMCPTool reports the name as remote; a repeated
\* call on an unchanged connection table reaches the same server.
C24_FirstOwner == [](C24_ForwardedToFirst) /\ [][C24_Stable]_vars

\* A call of a tool that two connected servers declare went to the first.
C24_Witness ==
    /\ last.op = "executeTool"
    /\ managers[last.mgr].initialized
    /\ Cardinality(OwnersOf(managers[last.mgr], last.name)) = 2
    /\ last.error = ""
    /\ last.contacted = managers[last.mgr].connections[1].k
    /\ last.contacted = "s1"

\* ---------------------------------------------------------------- C25
\* One call of tools(fn) with a name the registry holds.
C25_FailedLaw ==
    (/\ last'.op = "register"
     /\ last'.name # ""
     /\ InRegistry(registry, last'.name))
    => /\ last'.error = "ToolRegistrationError"
       /\ registry' = registry
       /\ ~last'.toolSchemaSet

\* C25: a registration that fails because the name is already registered
\* changes nothing: the registry (entries, size, order of names) is the one
\* before the call, and the callable offered did not get its _toolSchema
\* attribute assigned.
C25_FailedRegistration == [][C25_FailedLaw]_vars

\* A second callable of a registered name was refused while the registry
\* held another name too; it carries no schema.
C25_Witness ==
    /\ last.op = "register"
    /\ last.error = "ToolRegistrationError"
    /\ ~last.toolSchemaSet
    /\ Len(registry) = 2
    /\ InRegistry(registry, last.name)
    /\ registry[EntryOf(registry, last.name)].v.fn.id # last.fn

\* ---------------------------------------------------------------- C26
\* C26: between two cleanups at most one initialize call on a manager starts
\* connection attempts: no two initialize calls that started their connects
\* are in flight on the same manager, unless a cleanup began while one of
\* them was in flight.
C26_SingleInitialize ==
    \A t, u \in TaskIds :
        ~(/\ t # u
          /\ tasks[t].kind = "initialize" /\ tasks[u].kind = "initialize"
          /\ tasks[t].mgr = tasks[u].mgr
          /\ ~tasks[t].crossed /\ ~tasks[u].crossed)

\* ---------------------------------------------------------------- C27
\* C27: when a cleanup began while an initialize on the same manager was in
\* flight, then once both have completed (the later of the two has just
\* finished and no call is in flight on the manager) the manager is
\* uninitialized and its connection table is empty.
C27_CleanupWins ==
    (/\ last.op \in {"initialize", "cleanup"}
     /\ last.phase = "done"
     /\ last.crossed
     /\ Alone(last.mgr))
    => /\ ~managers[last.mgr].initialized
       /\ managers[last.mgr].connections = <<>>

\* ---------------------------------------------------------------- C28
\* The step in which initialize is called on a manager whose initialized
\* flag is set.
C28_NoopLaw ==
    (/\ last'.op = "initialize"
     /\ last'.phase # "done"
     /\ managers[last'.mgr].initialized)
    => /\ last'.phase = "noop"
       /\ managers' = managers
       /\ tasks' = tasks

\* C28: initialize on an already-initialized manager is a no-op: it starts
\* no connection attempt and leaves the connection table and the tool list
\* as they were, so the servers of the configuration passed are not connected
\* by it.
C28_InitializedNoop == [][C28_NoopLaw]_vars

\* initialize returned at once on an initialized manager although the
\* configuration passed names a server that is not in the table.
C28_Witness ==
    /\ last.op = "initialize"
    /\ last.phase = "noop"
    /\ managers[last.mgr].initialized
    /\ managers[last.mgr].connections # <<>>
    /\ \E i \in 1..Len(last.cfg) :
          /\ last.cfg[i].kind = "stdio"
          /\ ~MapHas(managers[last.mgr].connections, last.cfg[i].serverName)

\* ---------------------------------------------------------------- C29
\* Every entry of every connection table is a connected server: its status is
\* true, it is listed by getConnectedServers, and the tools getAvailableTools
\* returns are those the servers of the table declare.
C29_TableConnected ==
    \A m \in 1..Len(managers) :
        LET c == managers[m].connections
        IN /\ \A s \in GetConnectionStatus(c) : s[2] = TRUE
           /\ GetConnectedServers(c) = MapKeys(c)
           /\ Range(GetAvailableTools(c)) =
                  UNION { Range(c[i].v.tools) : i \in 1..Len(c) }

\* While a call connects the servers of a configuration on its own, on a
\* manager it found empty, the servers whose connect is still in progress and
\* those whose connect failed are absent from the table.
C29_PendingAbsent ==
    \A t \in TaskIds :
        (/\ tasks[t].kind \in {"initialize", "processTools"}
         /\ tasks[t].alone
         /\ tasks[t].start # "dirty")
        => LET c == managers[tasks[t].mgr].connections
           IN /\ \A i \in 1..Len(tasks[t].pending) :
                    ~MapHas(c, tasks[t].pending[i].serverName)
              /\ \A i \in 1..Len(tasks[t].cfg) :
                    ~Connects(tasks[t].cfg[i]) => ~MapHas(c, tasks[t].cfg[i].serverName)

\* A connect that fails leaves every table as it was.
C29_FailedLaw ==
    (last'.op = "connect" /\ ~last'.ok) => managers' = managers

\* C29: the connection table holds only servers whose connect succeeded: a
\* server whose attempt failed or is still in progress is absent from
\* getConnectionStatus() and getConnectedServers(), every status reported is
\* true, and every tool of getAvailableTools() belongs to a server of the
\* table.
C29_OnlyConnected ==
    [](C29_TableConnected /\ C29_PendingAbsent) /\ [][C29_FailedLaw]_vars

\* The connect of one server of a configuration has failed after another
\* server of it was entered in the table.
C29_Witness ==
    /\ last.op = "connect"
    /\ ~last.ok
    /\ managers[last.mgr].connections # <<>>
    /\ ~MapHas(managers[last.mgr].connections, last.serverName)
    /\ \E t \in TaskIds : tasks[t].kind = "initialize" /\ tasks[t].alone
                          /\ tasks[t].start = "fresh" /\ tasks[t].mgr = last.mgr

\* ---------------------------------------------------------------- C30
\* How the promise of a streaming completion settles on an event.
OutcomeOf(event) == IF event = "error" THEN "rejected" ELSE "fulfilled"

\* resolve or reject was called at most once; the promise is settled as soon
\* as the first of [DONE], error and timer has occurred, with the outcome of
\* that event; once the timer has fired the promise is settled.
C30_FirstEventWins ==
    \A t \in TaskIds :
        tasks[t].kind = "stream"
        => /\ tasks[t].settlements <= 1
           /\ (tasks[t].first = "") = (tasks[t].promise = "pending")
           /\ tasks[t].first # "" =>
                 (tasks[t].settlements = 1 /\ tasks[t].promise = OutcomeOf(tasks[t].first))
           /\ ~tasks[t].timer => tasks[t].promise # "pending"

\* A settled promise keeps its outcome whatever event arrives.
C30_Settled ==
    \A t \in TaskIds :
        (tasks[t].kind = "stream" /\ tasks[t].promise # "pending")
        => tasks'[t].promise = tasks[t].promise

\* C30: the promise of a streaming completion settles exactly once, with the
\* outcome of whichever of the [DONE] message, a stream error and the 100 ms
\* timer comes first; events that arrive after it has settled neither settle
\* it again nor change its outcome.
C30_SettlesOnce == [](C30_FirstEventWins) /\ [][C30_Settled]_vars

\* The timer resolved the promise first and the stream failed afterwards:
\* the promise stays fulfilled.
C30_Witness ==
    /\ last.op = "stream"
    /\ last.event = "error"
    /\ tasks[last.task].first = "timer"
    /\ tasks[last.task].promise = "fulfilled"
    /\ tasks[last.task].settlements = 1

====
